---- MODULE Spec2Model ----
(***************************************************************************)
(* Model of the code-scorer VS Code extension (src/src/extension.ts).      *)
(*                                                                         *)
(* A reply of the remote model is a sequence of one-character strings, so  *)
(* that the conversion Number(content) can be modelled character by        *)
(* character.  Texts handed to the host (status bar text, error messages)  *)
(* are TLA+ strings built with \o.  A JavaScript number is a record        *)
(*   [kind, neg, m, e]   kind "finite": (-1)^neg * m * 10^e, m without     *)
(*                       trailing zeros (m = 0 => e = 0; neg keeps -0);    *)
(*                       kind "Infinity", "NaN"; kind "null" is the value  *)
(*                       null of the type number | null.                   *)
(* The decimal record is exact for the replies considered here: fewer than *)
(* 7 significant digits and a magnitude inside the normal double range.    *)
(***************************************************************************)
EXTENDS Integers, Sequences, FiniteSets, TLC

\* ------------------------------------------------------------------ bounds
MaxSaves == 2
MaxActivations == 2
MaxReplyLen == 3

\* ------------------------------------------------------- JavaScript values
Num(k, n, m, e) == [kind |-> k, neg |-> n, m |-> m, e |-> e]
Null == Num("null", FALSE, 0, 0)
NaN == Num("NaN", FALSE, 0, 0)
Infinity(neg) == Num("Infinity", neg, 0, 0)
Zero(neg) == Num("finite", neg, 0, 0)

Digit == {"0", "1", "2", "3", "4", "5", "6", "7", "8", "9"}
HexLetter == {"a", "b", "c", "d", "e", "f", "A", "B", "C", "D", "E", "F"}
StrWhiteSpaceChar == {" ", "\t", "\n", "\r"}
InfinityLiteral == <<"I", "n", "f", "i", "n", "i", "t", "y">>

DigitVal(c) ==
  CASE c \in {"0"} -> 0 [] c \in {"1"} -> 1 [] c \in {"2"} -> 2 [] c \in {"3"} -> 3
    [] c \in {"4"} -> 4 [] c \in {"5"} -> 5 [] c \in {"6"} -> 6 [] c \in {"7"} -> 7
    [] c \in {"8"} -> 8 [] c \in {"9"} -> 9
    [] c \in {"a", "A"} -> 10 [] c \in {"b", "B"} -> 11 [] c \in {"c", "C"} -> 12
    [] c \in {"d", "D"} -> 13 [] c \in {"e", "E"} -> 14 [] c \in {"f", "F"} -> 15

DigitStr(d) ==
  CASE d = 0 -> "0" [] d = 1 -> "1" [] d = 2 -> "2" [] d = 3 -> "3" [] d = 4 -> "4"
    [] d = 5 -> "5" [] d = 6 -> "6" [] d = 7 -> "7" [] d = 8 -> "8" [] d = 9 -> "9"

RECURSIVE Pow10(_)
Pow10(n) == IF n <= 0 THEN 1 ELSE 10 * Pow10(n - 1)

\* number of decimal digits of a natural number (1 for 0)
RECURSIVE NumDigits(_)
NumDigits(v) == IF v < 10 THEN 1 ELSE 1 + NumDigits(v \div 10)

\* the decimal digits of v, left-padded with zeros to at least width characters
RECURSIVE PadNat(_, _)
PadNat(v, width) ==
  IF v < 10 /\ width <= 1 THEN DigitStr(v)
  ELSE PadNat(v \div 10, width - 1) \o DigitStr(v % 10)

NatToStr(v) == PadNat(v, 1)

RECURSIVE Zeros(_)
Zeros(n) == IF n <= 0 THEN "" ELSE "0" \o Zeros(n - 1)

\* ---------------------------------------------- StringToNumber (Number(s))
RECURSIVE TrimLeft(_)
TrimLeft(s) ==
  IF s # <<>> /\ Head(s) \in StrWhiteSpaceChar THEN TrimLeft(Tail(s)) ELSE s

RECURSIVE TrimRight(_)
TrimRight(s) ==
  IF s # <<>> /\ s[Len(s)] \in StrWhiteSpaceChar
  THEN TrimRight(SubSeq(s, 1, Len(s) - 1)) ELSE s

Trim(s) == TrimRight(TrimLeft(s))

AllIn(s, set) == \A k \in 1..Len(s) : s[k] \in set

\* value of a digit string in the given radix
RECURSIVE RadixValue(_, _)
RadixValue(s, radix) ==
  IF s = <<>> THEN 0
  ELSE RadixValue(SubSeq(s, 1, Len(s) - 1), radix) * radix + DigitVal(s[Len(s)])

\* first position of a character of set in s, Len(s) + 1 when there is none
FirstIn(s, set) ==
  IF \E k \in 1..Len(s) : s[k] \in set
  THEN CHOOSE k \in 1..Len(s) : s[k] \in set /\ \A j \in 1..(k - 1) : s[j] \notin set
  ELSE Len(s) + 1

\* m * 10^e without trailing zeros in m
RECURSIVE Normalize(_, _, _)
Normalize(neg, m, e) ==
  IF m = 0 THEN Zero(neg)
  ELSE IF m % 10 = 0 THEN Normalize(neg, m \div 10, e + 1)
  ELSE Num("finite", neg, m, e)

\* a double cannot hold magnitudes of 2^1024 (1.797...e308) and more, nor
\* distinguish magnitudes under 2^-1075 from zero
RoundToDouble(x) ==
  LET k == NumDigits(x.m)
      n == x.e + k
  IN IF x.kind # "finite" \/ x.m = 0 THEN x
     ELSE IF n > 309 \/ (n = 309 /\ x.m * Pow10(6 - k) >= 179770) THEN Infinity(x.neg)
     ELSE IF n < -323 THEN Zero(x.neg)
     ELSE x

\* StrUnsignedDecimalLiteral: digits [. digits] [e [sign] digits]
UnsignedDecimal(neg, t) ==
  LET p == FirstIn(t, {"e", "E"})
      mant == SubSeq(t, 1, p - 1)
      hasExp == p <= Len(t)
      ex == SubSeq(t, p + 1, Len(t))
      exNeg == ex # <<>> /\ Head(ex) = "-"
      exDigits == IF ex # <<>> /\ Head(ex) \in {"+", "-"} THEN Tail(ex) ELSE ex
      d == FirstIn(mant, {"."})
      int == SubSeq(mant, 1, d - 1)
      frac == SubSeq(mant, d + 1, Len(mant))
      mantOk == /\ AllIn(int, Digit) /\ AllIn(frac, Digit)
                /\ Len(int) + Len(frac) > 0
      exOk == ~hasExp \/ (exDigits # <<>> /\ AllIn(exDigits, Digit))
      exVal == IF hasExp THEN RadixValue(exDigits, 10) ELSE 0
  IN IF mantOk /\ exOk
     THEN RoundToDouble(Normalize(neg, RadixValue(int \o frac, 10),
                                  (IF exNeg THEN 0 - exVal ELSE exVal) - Len(frac)))
     ELSE NaN

\* StrDecimalLiteral: [sign] (Infinity | StrUnsignedDecimalLiteral)
DecimalLiteral(t) ==
  LET signed == t # <<>> /\ Head(t) \in {"+", "-"}
      neg == t # <<>> /\ Head(t) = "-"
      u == IF signed THEN Tail(t) ELSE t
  IN IF u = InfinityLiteral THEN Infinity(neg) ELSE UnsignedDecimal(neg, u)

\* NonDecimalIntegerLiteral: 0x / 0o / 0b followed by digits of that radix
RadixLiteral(t) ==
  LET ds == SubSeq(t, 3, Len(t))
      radix == CASE t[2] \in {"x", "X"} -> 16 [] t[2] \in {"o", "O"} -> 8
                 [] t[2] \in {"b", "B"} -> 2
      ok == /\ ds # <<>> /\ AllIn(ds, Digit \cup HexLetter)
            /\ \A k \in 1..Len(ds) : DigitVal(ds[k]) < radix
  IN IF ok THEN Normalize(FALSE, RadixValue(ds, radix), 0) ELSE NaN

StringToNumber(s) ==
  LET t == Trim(s)
  IN IF t = <<>> THEN Zero(FALSE)
     ELSE IF Len(t) >= 2 /\ t[1] = "0" /\ t[2] \in {"x", "X", "o", "O", "b", "B"}
     THEN RadixLiteral(t)
     ELSE DecimalLiteral(t)

isNaN(x) == x.kind = "NaN"

\* --------------------------------------- Number::toString (template `${x}`)
NumberToString(x) ==
  LET k == NumDigits(x.m)
      n == x.e + k
      sign == IF x.neg THEN "-" ELSE ""
      expo == IF n - 1 < 0 THEN "e-" \o NatToStr(1 - n) ELSE "e+" \o NatToStr(n - 1)
  IN CASE x.kind = "null" -> "null"
       [] x.kind = "NaN" -> "NaN"
       [] x.kind = "Infinity" -> sign \o "Infinity"
       [] x.kind = "finite" /\ x.m = 0 -> "0"
       [] x.kind = "finite" /\ x.m # 0 ->
            IF k <= n /\ n <= 21 THEN sign \o NatToStr(x.m) \o Zeros(n - k)
            ELSE IF 0 < n /\ n <= 21
            THEN sign \o NatToStr(x.m \div Pow10(k - n)) \o "."
                      \o PadNat(x.m % Pow10(k - n), k - n)
            ELSE IF -6 < n /\ n <= 0 THEN sign \o "0." \o Zeros(0 - n) \o NatToStr(x.m)
            ELSE IF k = 1 THEN sign \o NatToStr(x.m) \o expo
            ELSE sign \o NatToStr(x.m \div Pow10(k - 1)) \o "."
                      \o PadNat(x.m % Pow10(k - 1), k - 1) \o expo

\* x >= c for a two-digit positive integer c (null converts to 0, NaN compares false)
GreaterOrEqual(x, c) ==
  LET n == x.e + NumDigits(x.m)
  IN CASE x.kind \in {"null", "NaN"} -> FALSE
       [] x.kind = "Infinity" -> ~x.neg
       [] x.kind = "finite" ->
            /\ ~x.neg /\ x.m # 0
            /\ \/ n >= 3
               \/ n = 2 /\ (IF x.e >= 0 THEN x.m * Pow10(x.e) >= c
                            ELSE x.m >= c * Pow10(0 - x.e))

\* ------------------------------------------------------------ input domains
\* codeScorer.apiKey as the configuration store returns it: <<>> is undefined,
\* <<k>> is the string k
ApiKeys == {<<>>, <<"">>, <<"sk-test">>}

\* error.message of an error raised by openai.chat.completions.create
ErrorMessages == {"rate limited", "401 Incorrect API key provided"}

\* message.content of the first candidate: null or a string
NullContent == [isNull |-> TRUE, text |-> <<>>]
Content(s) == [isNull |-> FALSE, text |-> s]

Raised(m) == [kind |-> "error", message |-> m, choices |-> <<>>]
Completion(cs) == [kind |-> "ok", message |-> "", choices |-> cs]
NoResponse == Completion(<<>>)

ScenarioD ==
  <<"T", "h", "e", " ", "c", "o", "d", "e", " ", "l", "o", "o", "k", "s", " ",
    "g", "o", "o", "d", ",", " ", "I", "'", "d", " ", "s", "a", "y", " ", "8", "5">>

\* replies of the concurrent specification: a few, one of each kind
Replies ==
  {<<>>, <<"8", "5">>, <<"1", "0", "5">>, <<"8", "5", "a">>}

\* replies of the single-pipeline specification: every string over Alphabet of
\* at most MaxReplyLen characters, and the longer ones of interest
Alphabet == {"0", "5", "7", "8", "9", " ", "-", "+", ".", "e", "x", "a"}
LongReplies ==
  { ScenarioD, <<"1", "0", "5">>, InfinityLiteral, <<"-">> \o InfinityLiteral,
    <<" ", "8", "5", "\n">>, <<"8", "9", ".", "9", "9">>, <<"0", "x", "5", "A">>,
    <<"1", "e", "2", "1">>, <<"1", "e", "3", "0", "9">>, <<"1", ".", "5", "e", "-", "7">>,
    <<"8", "5", " ", "9", "0">> }
AllReplies == UNION {[1..n -> Alphabet] : n \in 0..MaxReplyLen} \cup LongReplies

ResponsesOver(replies) ==
  {Raised(m) : m \in ErrorMessages}
    \cup {Completion(<<>>), Completion(<<NullContent>>)}
    \cup {Completion(<<Content(s)>>) : s \in replies}

\* --------------------------------------------------------------- the state
VARIABLES
  statusBarItem,  \* the global: 0 is undefined, else an index into items
  items,          \* the status bar items created so far: [text, visible, disposed]
  subscribed,     \* onSaveHandler is registered and not disposed
  config,         \* the setting codeScorer.apiKey
  pipe,           \* the invocations of the save handler, one per save event;
                  \* shown: the messages it passed to showErrorMessage
  microtask,      \* the handler whose continuation is queued (0: none)
  arrivals        \* the invocations in the order their remote call settled

vars == <<statusBarItem, items, subscribed, config, pipe, microtask, arrivals>>

Pipes == 1..MaxSaves

IdlePipe ==
  [pc |-> "Idle", apiKey |-> <<>>, activation |-> 0, response |-> NoResponse,
   score |-> Null, shown |-> <<>>, requests |-> 0, writes |-> 0, wrote |-> 0, rejected |-> FALSE]

Init ==
  /\ statusBarItem = 0
  /\ items = <<>>
  /\ subscribed = FALSE
  /\ config \in ApiKeys
  /\ pipe = [i \in Pipes |-> IdlePipe]
  /\ microtask = 0
  /\ arrivals = <<>>

\* statusBarItem.text
DisplayState == IF statusBarItem = 0 THEN "" ELSE items[statusBarItem].text

\* ---------------------------------------------------- activate / deactivate
initializeStatusBarItem ==
  /\ items' = Append(items, [text |-> "Code Score: N/A", visible |-> TRUE,
                             disposed |-> FALSE])
  /\ statusBarItem' = Len(items) + 1

\* activate(context); the host activates an extension that is not active
Activate ==
  /\ ~subscribed
  /\ microtask = 0
  /\ Len(items) < MaxActivations
  /\ initializeStatusBarItem
  /\ subscribed' = TRUE
  /\ UNCHANGED <<config, pipe, microtask, arrivals>>

disposeStatusBarItem ==
  items' = IF statusBarItem # 0
           THEN [items EXCEPT ![statusBarItem].disposed = TRUE]
           ELSE items

\* deactivate(), then the host disposes context.subscriptions (the save
\* listener and the status bar item)
Deactivate ==
  /\ subscribed
  /\ microtask = 0
  /\ disposeStatusBarItem
  /\ subscribed' = FALSE
  /\ UNCHANGED <<statusBarItem, config, pipe, microtask, arrivals>>

\* the user edits the setting codeScorer.apiKey
SetApiKey(k) ==
  /\ microtask = 0
  /\ k # config
  /\ config' = k
  /\ UNCHANGED <<statusBarItem, items, subscribed, pipe, microtask, arrivals>>

\* ---------------------------------------------------------- the save handler
getApiKeyFromConfig == config

showErrorMessage(p, message) == [p EXCEPT !.shown = Append(@, message)]

\* !apiKey
apiKeyUndefinedOnly(apiKey) == apiKey = <<>>
apiKeyMissing(apiKey) == apiKey = <<>> \/ apiKey = <<"">>

\* openai.chat.completions.create(...): one request leaves
createCompletionTwice(p) == [p EXCEPT !.requests = @ + 2, !.pc = "Requesting"]
createCompletion(p) == [p EXCEPT !.requests = @ + 1, !.pc = "Requesting"]

\* a save event: the handler runs up to its first suspension point
Save(i) ==
  /\ subscribed
  /\ microtask = 0
  /\ pipe[i].pc = "Idle"
  /\ \A j \in Pipes : j < i => pipe[j].pc # "Idle"
  /\ LET apiKey == getApiKeyFromConfig
         p == [pipe[i] EXCEPT !.apiKey = apiKey, !.activation = Len(items)]
     IN IF apiKeyMissing(apiKey)
        THEN pipe' = [pipe EXCEPT ![i] =
                        [showErrorMessage(p, "Please set your OpenAI API Key in the settings.")
                           EXCEPT !.pc = "Failed"]]
        ELSE pipe' = [pipe EXCEPT ![i] = createCompletion(p)]
  /\ UNCHANGED <<statusBarItem, items, subscribed, config, microtask, arrivals>>

parseScoreFromResponse(responseContent) ==
  LET score == StringToNumber(responseContent)
  IN IF isNaN(score) THEN Null ELSE score

\* content ? ... : null
contentNotNull(content) == ~content.isNull
contentTruthy(content) == ~content.isNull /\ content.text # <<>>

\* `Error: ${error.message}`
catchMessageFixed(message) == "Error: Request failed."
catchMessage(message) == "Error: " \o message

Outcome(score, shown, threw) == [score |-> score, shown |-> shown, threw |-> threw]

\* evaluateCodeWithOpenAI from the settling of the remote call to its return:
\* the score returned, the messages shown, and whether an error escapes
evaluateUnguardedChoice(response) ==
  IF response.kind = "error"
  THEN Outcome(Null, <<catchMessage(response.message)>>, FALSE)
  ELSE IF response.choices = <<>>
  THEN Outcome(Null, <<>>, TRUE)
  ELSE LET content == response.choices[1]
           score == IF contentTruthy(content)
                    THEN parseScoreFromResponse(content.text) ELSE Null
       IN Outcome(score,
                  IF score = Null
                  THEN <<"Error: Invalid response format from OpenAI.">> ELSE <<>>,
                  FALSE)

evaluateCodeWithOpenAI(response) ==
  IF response.kind = "error"
  THEN Outcome(Null, <<catchMessage(response.message)>>, FALSE)
  ELSE IF response.choices = <<>>
  THEN \* response.choices[0].message throws a TypeError inside the try block
       Outcome(Null,
               <<catchMessage("Cannot read properties of undefined (reading 'message')")>>,
               FALSE)
  ELSE LET content == response.choices[1]
           score == IF contentTruthy(content)
                    THEN parseScoreFromResponse(content.text) ELSE Null
       IN Outcome(score,
                  IF score = Null
                  THEN <<"Error: Invalid response format from OpenAI.">> ELSE <<>>,
                  FALSE)

\* the remote call of invocation i settles with response: evaluateCodeWithOpenAI
\* resumes and runs to its return; the handler's continuation is queued
Respond(i, response) ==
  /\ microtask = 0
  /\ pipe[i].pc = "Requesting"
  /\ LET out == evaluateCodeWithOpenAI(response)
     IN /\ pipe' = [pipe EXCEPT ![i] =
                      [@ EXCEPT !.response = response, !.score = out.score,
                                !.shown = @ \o out.shown,
                                !.rejected = out.threw,
                                !.pc = IF out.threw THEN "Rejected" ELSE "Returned"]]
        /\ microtask' = IF out.threw THEN 0 ELSE i
  /\ arrivals' = Append(arrivals, i)
  /\ UNCHANGED <<statusBarItem, items, subscribed, config>>

\* the remote call of invocation i settles with one of the given responses
RemoteCallSettles(i, responses) ==
  /\ pipe[i].pc = "Requesting"
  /\ \E r \in responses : Respond(i, r)

getEmojiForScoreStrict(score) ==
  IF GreaterOrEqual(score, 90) /\ score # Num("finite", FALSE, 9, 1) THEN ":tada:"
  ELSE IF GreaterOrEqual(score, 80) THEN ":thumbsup:"
  ELSE IF GreaterOrEqual(score, 70) THEN ":thinking:"
  ELSE ":thumbsdown:"

getEmojiForScore(score) ==
  IF GreaterOrEqual(score, 90) THEN ":tada:"
  ELSE IF GreaterOrEqual(score, 80) THEN ":thumbsup:"
  ELSE IF GreaterOrEqual(score, 70) THEN ":thinking:"
  ELSE ":thumbsdown:"

\* `Code Score: ${score}/100 ${emoji}`
StatusBarText(score) ==
  "Code Score: " \o NumberToString(score) \o "/100 " \o getEmojiForScore(score)

updateStatusBar(score) ==
  items' = [items EXCEPT ![statusBarItem].text = StatusBarText(score)]

\* score !== null
scoreAlways(score) == TRUE
scoreNotNull(score) == score # Null

\* a handler that drops its result when a later save has started
HandlerResumeLatestOnly(i) ==
  /\ microtask = i
  /\ pipe[i].pc = "Returned"
  /\ IF scoreNotNull(pipe[i].score)
     THEN /\ IF \E j \in Pipes : j > i /\ pipe[j].pc # "Idle"
             THEN UNCHANGED items
             ELSE updateStatusBar(pipe[i].score)
          /\ pipe' = [pipe EXCEPT ![i] = [@ EXCEPT !.pc = "Displayed", !.writes = @ + 1,
                                                   !.wrote = statusBarItem]]
     ELSE /\ pipe' = [pipe EXCEPT ![i].pc = "Failed"]
          /\ UNCHANGED items
  /\ microtask' = 0
  /\ UNCHANGED <<statusBarItem, subscribed, config, arrivals>>

\* the handler of invocation i resumes after `await evaluateCodeWithOpenAI`
HandlerResume(i) ==
  /\ microtask = i
  /\ pipe[i].pc = "Returned"
  /\ IF scoreNotNull(pipe[i].score)
     THEN /\ updateStatusBar(pipe[i].score)
          /\ pipe' = [pipe EXCEPT ![i] = [@ EXCEPT !.pc = "Displayed", !.writes = @ + 1,
                                                   !.wrote = statusBarItem]]
     ELSE /\ pipe' = [pipe EXCEPT ![i].pc = "Failed"]
          /\ UNCHANGED items
  /\ microtask' = 0
  /\ UNCHANGED <<statusBarItem, subscribed, config, arrivals>>

\* ------------------------------------------------------- the specifications
Responses == ResponsesOver(Replies)

Next ==
  \/ Activate
  \/ Deactivate
  \/ \E k \in ApiKeys : SetApiKey(k)
  \/ \E i \in Pipes : Save(i)
  \/ \E i \in Pipes : RemoteCallSettles(i, Responses)
  \/ \E i \in Pipes : HandlerResume(i)

Spec == Init /\ [][Next]_vars

\* one pipeline run over every reply
ScoreResponses == ResponsesOver(AllReplies)

ScoreNext ==
  \/ Activate
  \/ Save(1)
  \/ RemoteCallSettles(1, ScoreResponses)
  \/ HandlerResume(1)

ScoreSpec == Init /\ [][ScoreNext]_vars

\* ------------------------------------------------------- claim vocabulary
Sentinel == "Code Score: N/A"
MissingKeyMessage == "Please set your OpenAI API Key in the settings."
InvalidFormatMessage == "Error: Invalid response format from OpenAI."

Started(i) == pipe[i].pc # "Idle"
Settled(i) == pipe[i].pc \in {"Returned", "Displayed", "Failed", "Rejected"} /\ pipe[i].requests > 0
Stepped(i) == pipe'[i] # pipe[i]
NonEmptyCredential(k) == k # <<>> /\ k[1] # ""
RaisedWith(i) == Settled(i) /\ pipe[i].response.kind = "error"
HasCandidate(i) == Settled(i) /\ pipe[i].response.kind = "ok" /\ pipe[i].response.choices # <<>>
FirstContent(i) == pipe[i].response.choices[1]
\* the first candidate's content is absent or the empty string
EmptyReply(i) == HasCandidate(i) /\ (FirstContent(i).isNull \/ FirstContent(i).text = <<>>)
\* the reply string the parser is handed
HandedToParser(i) == HasCandidate(i) /\ ~EmptyReply(i)
ParsedToNumber(i) == HandedToParser(i) /\ ~isNaN(StringToNumber(FirstContent(i).text))

\* C1: a pipeline instance that ends in failure leaves DisplayState as it was:
\* every step that changes statusBarItem.text is either activate or the final
\* step of an instance whose reply parsed to a number, and an instance that
\* ends Failed has never written.
C1_FailureKeepsDisplay ==
  [][ /\ \A i \in Pipes :
           /\ (Stepped(i) /\ pipe'[i].pc = "Failed") =>
                 (DisplayState' = DisplayState /\ pipe'[i].writes = 0)
           /\ (Stepped(i) /\ pipe'[i].score = Null) => DisplayState' = DisplayState
           /\ pipe'[i].writes # pipe[i].writes => ParsedToNumber(i)
      /\ DisplayState' # DisplayState =>
           \/ Len(items') > Len(items)
           \/ \E i \in Pipes : /\ pipe[i].pc = "Returned" /\ pipe'[i].pc = "Displayed"
                               /\ ParsedToNumber(i) ]_vars

\* a failed evaluation settled after a successful one, whose score is still shown
C1_Witness ==
  \E i, j \in Pipes :
     /\ pipe[i].pc = "Failed" /\ pipe[i].requests = 1
     /\ pipe[j].pc = "Displayed" /\ arrivals = <<j, i>>
     /\ DisplayState = StatusBarText(pipe[j].score)

\* C2: a save event with an absent or empty credential goes directly to Failed:
\* the error sink receives exactly the missing-key message, no request is
\* issued and DisplayState is unchanged.
C2_MissingCredential ==
  /\ [](\A i \in Pipes :
          (Started(i) /\ ~NonEmptyCredential(pipe[i].apiKey)) =>
             /\ pipe[i].pc = "Failed"
             /\ pipe[i].shown = <<MissingKeyMessage>>
             /\ pipe[i].requests = 0
             /\ pipe[i].writes = 0)
  /\ [][\A i \in Pipes :
          (~Started(i) /\ Stepped(i) /\ ~NonEmptyCredential(config)) =>
             (pipe'[i].pc = "Failed" /\ DisplayState' = DisplayState)]_vars

C2_Witness ==
  \E i, j \in Pipes :
     /\ pipe[i].pc = "Failed" /\ pipe[i].apiKey = <<"">>
     /\ pipe[j].pc = "Displayed" /\ j < i
     /\ DisplayState = StatusBarText(pipe[j].score)

RECURSIVE SumRequests(_)
SumRequests(n) == IF n = 0 THEN 0 ELSE pipe[n].requests + SumRequests(n - 1)

\* C3: every instance that passes the credential check issues exactly one
\* request whatever its outcome, the others none: the number of requests is
\* the number of save events that had a non-empty credential.
C3_OneRequest ==
  /\ \A i \in Pipes :
        pipe[i].requests =
          IF Started(i) /\ NonEmptyCredential(pipe[i].apiKey) THEN 1 ELSE 0
  /\ SumRequests(MaxSaves) =
        Cardinality({i \in Pipes : Started(i) /\ NonEmptyCredential(pipe[i].apiKey)})

\* one instance failed on a raised error, another on a malformed reply
C3_Witness ==
  \E i, j \in Pipes :
     /\ pipe[i].pc = "Failed" /\ RaisedWith(i) /\ pipe[i].requests = 1
     /\ pipe[j].pc = "Failed" /\ HandedToParser(j) /\ pipe[j].requests = 1

\* C4: when the remote call raises an error with message m, the instance ends
\* Failed, the error sink receives exactly "Error: " followed by m, no score
\* is produced and DisplayState is unchanged.
C4_RaisedError ==
  /\ [](\A i \in Pipes :
          RaisedWith(i) =>
             /\ pipe[i].pc \in {"Returned", "Failed"}
             /\ \E m \in ErrorMessages :
                   /\ pipe[i].response.message = m
                   /\ \/ m = "rate limited" /\ pipe[i].shown = <<"Error: rate limited">>
                      \/ m = "401 Incorrect API key provided"
                           /\ pipe[i].shown = <<"Error: 401 Incorrect API key provided">>
             /\ pipe[i].score = Null
             /\ pipe[i].writes = 0)
  /\ [][\A i \in Pipes :
          (Stepped(i) /\ pipe'[i].response.kind = "error") =>
             (DisplayState' = DisplayState
                /\ (pipe[i].pc = "Returned" => pipe'[i].pc = "Failed"))]_vars

\* scenario B after a displayed score
C4_Witness ==
  \E i, j \in Pipes :
     /\ pipe[i].pc = "Failed" /\ pipe[i].response = Raised("rate limited")
     /\ pipe[j].pc = "Displayed" /\ arrivals = <<j, i>>
     /\ DisplayState = StatusBarText(pipe[j].score)

\* C5: when the call succeeds but the first candidate's content is absent or
\* empty, the error sink receives exactly the invalid-format message once, as
\* for a malformed reply, and DisplayState is unchanged.
C5_EmptyReply ==
  /\ [](\A i \in Pipes :
          EmptyReply(i) =>
             /\ pipe[i].pc \in {"Returned", "Failed"}
             /\ pipe[i].shown = <<InvalidFormatMessage>>
             /\ pipe[i].score = Null
             /\ pipe[i].writes = 0)
  /\ [](\A i, j \in Pipes :
          (EmptyReply(i) /\ HandedToParser(j) /\ ~ParsedToNumber(j)) =>
             pipe[i].shown = pipe[j].shown)
  /\ [][\A i \in Pipes :
          (Stepped(i) /\ pipe'[i].response.kind = "ok"
             /\ pipe'[i].response.choices \in {<<NullContent>>, <<Content(<<>>)>>}) =>
             DisplayState' = DisplayState]_vars

\* an absent content and an empty content, both failed
C5_Witness ==
  \E i, j \in Pipes :
     /\ pipe[i].pc = "Failed" /\ pipe[i].response = Completion(<<NullContent>>)
     /\ pipe[j].pc = "Failed" /\ pipe[j].response = Completion(<<Content(<<>>)>>)

\* the text of a number: not blank once trimmed, and a numeric literal
NumericText(s) == Trim(s) # <<>> /\ ~isNaN(StringToNumber(s))

\* C6: for every reply string handed to the parser, a string that is the text
\* of a number (leading and trailing whitespace allowed) gives that number;
\* a non-numeric, empty, whitespace-only or mixed string gives null.
C6_ParserClaim ==
  \A i \in Pipes :
     HandedToParser(i) =>
        LET s == FirstContent(i).text
        IN IF NumericText(s) THEN pipe[i].score = StringToNumber(s)
           ELSE pipe[i].score = Null

Celebration == ":tada:"
ThumbsUp == ":thumbsup:"
Thinking == ":thinking:"
ThumbsDown == ":thumbsdown:"

\* the marker of the tier table, each tier by its own condition
TierMarker(x) ==
  CHOOSE t \in {Celebration, ThumbsUp, Thinking, ThumbsDown} :
     /\ t = Celebration <=> GreaterOrEqual(x, 90)
     /\ t = ThumbsUp <=> (GreaterOrEqual(x, 80) /\ ~GreaterOrEqual(x, 90))
     /\ t = Thinking <=> (GreaterOrEqual(x, 70) /\ ~GreaterOrEqual(x, 80))
     /\ t = ThumbsDown <=> ~GreaterOrEqual(x, 70)

\* C7: for every score x that reaches the presentation mapper, DisplayState
\* becomes "Code Score: x/100 " followed by the tier marker, x unclamped;
\* reply "85" gives 85 with thumbs-up and reply "105" gives 105 with celebration.
C7_Presentation ==
  \A i \in Pipes :
     pipe[i].pc = "Displayed" =>
        /\ pipe[i].wrote = statusBarItem
        /\ DisplayState = "Code Score: " \o NumberToString(pipe[i].score) \o "/100 "
                             \o TierMarker(pipe[i].score)
        /\ FirstContent(i).text = <<"8", "5">> => DisplayState = "Code Score: 85/100 :thumbsup:"
        /\ FirstContent(i).text = <<"1", "0", "5">> => DisplayState = "Code Score: 105/100 :tada:"
        /\ FirstContent(i).text = <<"9", "0">> => DisplayState = "Code Score: 90/100 :tada:"
        /\ FirstContent(i).text = <<"-", "9", "9">> => DisplayState = "Code Score: -99/100 :thumbsdown:"

C7_Witness ==
  /\ pipe[1].pc = "Displayed"
  /\ FirstContent(1).text = <<"1", "0", "5">>
  /\ DisplayState = "Code Score: 105/100 :tada:"

\* C8: no error escapes the save handler, and once the remote call has settled
\* the instance reaches exactly one terminal outcome with its next step:
\* Displayed (one write, no error message) or Failed (one error message, no
\* write), also for a response that carries no candidates.
C8_OneOutcome ==
  /\ [](\A i \in Pipes :
          /\ ~pipe[i].rejected /\ pipe[i].pc # "Rejected"
          /\ pipe[i].pc = "Displayed" => (pipe[i].writes = 1 /\ pipe[i].shown = <<>>)
          /\ pipe[i].pc = "Failed" => (pipe[i].writes = 0 /\ Len(pipe[i].shown) = 1)
          /\ pipe[i].pc = "Returned" => microtask = i)
  /\ [][\A i \in Pipes :
          /\ (pipe[i].pc = "Requesting" /\ Stepped(i)) => pipe'[i].pc = "Returned"
          /\ pipe[i].pc = "Returned" => pipe'[i].pc \in {"Displayed", "Failed"}
          /\ pipe[i].pc \in {"Displayed", "Failed"} => ~Stepped(i)]_vars

\* a response without candidates ended in Failed with one message
C8_Witness ==
  \E i \in Pipes :
     /\ pipe[i].pc = "Failed" /\ Settled(i) /\ pipe[i].response = Completion(<<>>)
     /\ Len(pipe[i].shown) = 1

AllDone == microtask = 0 /\ \A i \in Pipes : pipe[i].pc \in {"Idle", "Displayed", "Failed"}
\* positions in arrivals of the instances that wrote the current status bar item
Writers ==
  {k \in 1..Len(arrivals) :
     pipe[arrivals[k]].pc = "Displayed" /\ pipe[arrivals[k]].wrote = statusBarItem}
LastWriter == arrivals[CHOOSE k \in Writers : \A l \in Writers : l <= k]

\* C9: when save events overlap and their responses arrive in any order, after
\* all instances have completed DisplayState is the presentation of the score
\* of the successful instance whose response arrived last, whatever the order
\* of the saves, and DisplayState is never a mixture of two results.
C9_LastWriterWins ==
  /\ (AllDone /\ Writers # {}) => DisplayState = StatusBarText(pipe[LastWriter].score)
  /\ statusBarItem # 0 =>
        DisplayState \in {Sentinel} \cup
           {StatusBarText(pipe[i].score) : i \in {j \in Pipes : pipe[j].pc = "Displayed"}}

\* the later save's response arrived first; the earlier save's score is shown
C9_Witness ==
  /\ AllDone
  /\ arrivals = <<2, 1>>
  /\ pipe[1].pc = "Displayed" /\ pipe[2].pc = "Displayed"
  /\ pipe[1].activation = pipe[2].activation
  /\ pipe[1].score # pipe[2].score
  /\ DisplayState = StatusBarText(pipe[1].score)

\* C10: activate sets DisplayState to the sentinel, which stays until an
\* instance completes successfully; after deactivate no instance started in
\* the earlier activation writes DisplayState.
C10_NoCarryOver ==
  [][ /\ Len(items') > Len(items) => DisplayState' = Sentinel
      /\ (DisplayState = Sentinel /\ DisplayState' # Sentinel) =>
            \E i \in Pipes : pipe[i].pc # "Displayed" /\ pipe'[i].pc = "Displayed"
      /\ \A i \in Pipes :
            pipe'[i].writes > pipe[i].writes =>
               (subscribed /\ pipe[i].activation = Len(items)) ]_vars
====
